---- MODULE Spec2Model ----
(***************************************************************************)
(* Model of crawlab-core's TaskService (src/services/task.go): the poll    *)
(* loop (Init/Close), the producer side (Assign, saveTask), the consumer   *)
(* side (Fetch), and the runner pool (Run, Cancel, FindLogs,               *)
(* getTaskRunner).  Every shared-memory access or call to the queue broker *)
(* or to the persistence store is one step of the thread that makes it.    *)
(***************************************************************************)
EXTENDS Integers, Sequences, FiniteSets

(***************************************************************************)
(* Bounds                                                                  *)
(***************************************************************************)
\* opts.MaxRunners, the ceiling of the pool (an option; 8 when left at 0)
MaxRunners == 2
\* largest number of messages held by all queues together
MaxQueue == 2

(***************************************************************************)
(* Values                                                                  *)
(***************************************************************************)
\* primitive.NilObjectID: the zero identifier
ZeroId == 0
\* task identifiers: the zero identifier and two real ones
TaskIds == {0, 1, 2}
\* node identifiers a task may target; ZeroId means "no target node"
NodeIds == {0, 1, 2}
\* opts.Node == nil
NoNode == -1
\* the values opts.Node may take: nil, or the node with identifier 1
ServiceNodes == {NoNode, 1}

Loop == "loop"
Callers == {"c1", "c2"}
Threads == {Loop} \cup Callers

\* errors (package constants and collaborators' errors)
Nil == "nil"
ErrStopped == "ErrStopped"
ErrEmptyValue == "ErrEmptyValue"
ErrNoTasksAvailable == "ErrNoTasksAvailable"
ErrForbidden == "ErrForbidden"
ErrAlreadyExists == "ErrAlreadyExists"
ErrNotExists == "ErrNotExists"
ErrInvalidType == "ErrInvalidType"
ErrTaskError == "ErrTaskError"
ErrTaskCancelled == "ErrTaskCancelled"
ErrUnknown == "ErrUnknown"
ErrNoDocuments == "ErrNoDocuments"
ErrRedis == "ErrRedis"
ErrMongo == "ErrMongo"
ErrJson == "ErrJson"
ErrRunner == "ErrRunner"

StatusPending == "pending"
\* a status written by a runner
StatusFinished == "finished"
NoRecord == "none"

\* the lines Init logs
NoLog == "none"
LogFetchError == "fetch task error"
LogRunError == "run task error"

\* no runner handle
NoRunner == 0

VARIABLES
    isMaster,       \* opts.IsMaster
    node,           \* opts.Node (NoNode when nil)
    active,         \* TaskService.active
    runnersCount,   \* TaskService.runnersCount
    runners,        \* TaskService.runners: key -> runner handle
    rstate,         \* the runners constructed so far: handle -> [tid, st]
    queues,         \* the broker: queue name -> sequence of messages
    store,          \* the task collection: task id -> status, or NoRecord
    pc,             \* position of each thread
    op,             \* the operation a caller is executing
    arg,            \* its argument: [id, nodeId, status]
    msg,            \* Fetch's local msg
    rnr,            \* Run's local r
    cnt,            \* the value of runnersCount read by runnersCount++
    ret,            \* the value returned: [err, val]
    logged          \* what Init has logged in the current iteration

vars == <<isMaster, node, active, runnersCount, runners, rstate, queues, store,
          pc, op, arg, msg, rnr, cnt, ret, logged>>

cfgVars == <<isMaster, node>>
poolVars == <<runnersCount, runners, rstate>>
dataVars == <<queues, store>>

(***************************************************************************)
(* Keys of the pool.  sync.Map compares keys as interface values: a        *)
(* primitive.ObjectID key (Run) and a string key (getTaskRunner) are of    *)
(* different dynamic types.                                                *)
(***************************************************************************)
ObjKey(id) == <<"ObjectID", id>>
StrKey(id) == <<"string", id>>

(***************************************************************************)
(* Queue names                                                             *)
(***************************************************************************)
QueuePub == <<"tasks:public">>
QueueNode(n) == <<"tasks:node:", n>>
QueueNames == {QueuePub} \cup {QueueNode(n) : n \in NodeIds \ {ZeroId}}

IsObjectIdNull(id) == id = ZeroId

\* the choice of queue that ignores the target node
AssignQueue_AlwaysPublic(t) == QueuePub

\* Assign's choice of queue
AssignQueue(t) == IF IsObjectIdNull(t.nodeId) THEN QueuePub ELSE QueueNode(t.nodeId)

(***************************************************************************)
(* Task message codec: the envelope is the JSON text of {Id}; the text is  *)
(* a sequence of tokens, the empty text is <<>>.                           *)
(***************************************************************************)
EmptyStr == <<>>
ToString(id) == <<"{", "\"_id\"", ":", id, "}">>
Unmarshal(s) ==
    IF Len(s) = 5 /\ s[1] = "{" /\ s[2] = "\"_id\"" /\ s[3] = ":" /\ s[5] = "}"
    THEN [err |-> Nil, id |-> s[4]]
    ELSE [err |-> ErrJson, id |-> ZeroId]

TotalQueued == LET n(q) == Len(queues[q]) IN n(QueuePub) + n(QueueNode(1)) + n(QueueNode(2))

Ret(e, v) == [err |-> e, val |-> v]
NoRet == Ret("none", 0)
NoArg == [id |-> 0, nodeId |-> 0, status |-> ""]

Init ==
    /\ isMaster \in BOOLEAN
    /\ node \in ServiceNodes
    /\ active = FALSE
    /\ runnersCount = 0
    /\ runners = << >>
    /\ rstate = << >>
    /\ queues = [q \in QueueNames |-> << >>]
    /\ store = [i \in TaskIds |-> NoRecord]
    /\ pc = [t \in Threads |-> IF t = Loop THEN "init" ELSE "idle"]
    /\ op = [t \in Threads |-> IF t = Loop THEN "Init" ELSE "none"]
    /\ arg = [t \in Threads |-> NoArg]
    /\ msg = [t \in Threads |-> EmptyStr]
    /\ rnr = [t \in Threads |-> NoRunner]
    /\ cnt = [t \in Threads |-> 0]
    /\ ret = [t \in Threads |-> NoRet]
    /\ logged = NoLog

(***************************************************************************)
(* Thread bookkeeping                                                      *)
(***************************************************************************)
\* where a thread continues when the operation o it called returns
RetPc(t, o) ==
    IF t = Loop THEN (IF o = "Fetch" THEN "after_fetch" ELSE "after_run") ELSE "done"

\* thread t returns r from operation o
Return(t, o, r) ==
    /\ pc' = [pc EXCEPT ![t] = RetPc(t, o)]
    /\ ret' = [ret EXCEPT ![t] = r]

\* a caller starts operation o with argument a at position p
Call(t, o, a, p) ==
    /\ t \in Callers
    /\ pc[t] = "idle"
    /\ op' = [op EXCEPT ![t] = o]
    /\ arg' = [arg EXCEPT ![t] = a]
    /\ pc' = [pc EXCEPT ![t] = p]

\* a caller has consumed the returned value and may call again
Reset(t) ==
    /\ t \in Callers
    /\ pc[t] = "done"
    /\ pc' = [pc EXCEPT ![t] = "idle"]
    /\ op' = [op EXCEPT ![t] = "none"]
    /\ arg' = [arg EXCEPT ![t] = NoArg]
    /\ msg' = [msg EXCEPT ![t] = EmptyStr]
    /\ rnr' = [rnr EXCEPT ![t] = NoRunner]
    /\ cnt' = [cnt EXCEPT ![t] = 0]
    /\ ret' = [ret EXCEPT ![t] = NoRet]
    /\ UNCHANGED <<cfgVars, logged, active, poolVars, dataVars>>

(***************************************************************************)
(* Run                                                                     *)
(***************************************************************************)
CallRun(t, id) ==
    /\ Call(t, "Run", [id |-> id, nodeId |-> ZeroId, status |-> ""], "run_load")
    /\ UNCHANGED <<cfgVars, logged, active, poolVars, dataVars, msg, rnr, cnt, ret>>

\* the presence check made with the key type of getTaskRunner
RunnersLoad_StringKey(id) == StrKey(id) \in DOMAIN runners

\* s.runners.Load(taskId) of Run
RunnersLoad(id) == ObjKey(id) \in DOMAIN runners

\* s.runners.Store(key, h)
RunnersStore(key, h) ==
    [k \in DOMAIN runners \cup {key} |-> IF k = key THEN h ELSE runners[k]]

\* Run, lines 195-206: the presence check, then NewTaskRunner
RunLoad(t) ==
    /\ pc[t] = "run_load"
    /\ IF RunnersLoad(arg[t].id)
       THEN /\ Return(t, "Run", Ret(ErrAlreadyExists, 0))
            /\ UNCHANGED <<rstate, rnr>>
       ELSE \/ /\ Return(t, "Run", Ret(ErrRunner, 0))
               /\ UNCHANGED <<rstate, rnr>>
            \/ /\ rstate' = Append(rstate, [tid |-> arg[t].id, st |-> "new"])
               /\ rnr' = [rnr EXCEPT ![t] = Len(rstate) + 1]
               /\ pc' = [pc EXCEPT ![t] = "run_store"]
               /\ ret' = ret
    /\ UNCHANGED <<cfgVars, logged, active, runnersCount, runners, dataVars, op, arg, msg, cnt>>

\* Run, line 209
RunStore(t) ==
    /\ pc[t] = "run_store"
    /\ runners' = RunnersStore(ObjKey(arg[t].id), rnr[t])
    /\ pc' = [pc EXCEPT ![t] = "run_read"]
    /\ UNCHANGED <<cfgVars, logged, active, runnersCount, rstate, dataVars, op, arg, msg, rnr, cnt, ret>>

\* Run, line 210: s.runnersCount++ reads the counter ...
RunCountRead(t) ==
    /\ pc[t] = "run_read"
    /\ cnt' = [cnt EXCEPT ![t] = runnersCount]
    /\ pc' = [pc EXCEPT ![t] = "run_write"]
    /\ UNCHANGED <<cfgVars, logged, active, poolVars, dataVars, op, arg, msg, rnr, ret>>

\* Run that returns only when r.Run() has ended
RunCountWrite_Waits(t) ==
    /\ pc[t] = "run_write"
    /\ runnersCount' = cnt[t] + 1
    /\ rstate' = [rstate EXCEPT ![rnr[t]].st = "done"]
    /\ Return(t, "Run", Ret(Nil, rnr[t]))
    /\ UNCHANGED <<cfgVars, logged, active, runners, dataVars, op, arg, msg, rnr, cnt>>

\* ... and writes it back; then lines 213-230: the goroutine is launched and
\* Run returns nil
RunCountWrite(t) ==
    /\ pc[t] = "run_write"
    /\ runnersCount' = cnt[t] + 1
    /\ rstate' = [rstate EXCEPT ![rnr[t]].st = "running"]
    /\ Return(t, "Run", Ret(Nil, rnr[t]))
    /\ UNCHANGED <<cfgVars, logged, active, runners, dataVars, op, arg, msg, rnr, cnt>>

\* the outcomes of r.Run()
Outcomes == {"finished", ErrTaskError, ErrTaskCancelled, ErrUnknown}

\* Run, lines 213-228: r.Run() ends with outcome o; the goroutine logs the
\* outcome (the log is not part of the state) and ends
RunnerFinish(h, o) ==
    /\ h \in DOMAIN rstate
    /\ rstate[h].st = "running"
    /\ o \in Outcomes
    /\ rstate' = [rstate EXCEPT ![h].st = "done"]
    /\ UNCHANGED <<cfgVars, logged, active, runnersCount, runners, dataVars, pc, op, arg, msg, rnr, cnt, ret>>

(***************************************************************************)
(* Cancel, FindLogs                                                        *)
(***************************************************************************)
\* the lookup made with the key type of Run
getTaskRunner_ObjectIDKey(id) ==
    IF ObjKey(id) \in DOMAIN runners
    THEN [r |-> runners[ObjKey(id)], err |-> Nil]
    ELSE [r |-> NoRunner, err |-> ErrNotExists]

\* getTaskRunner: the pool is keyed by the string it is given.  Every value
\* of the pool is a *TaskRunner, so ErrInvalidType is not returned.
getTaskRunner(id) ==
    IF StrKey(id) \in DOMAIN runners
    THEN [r |-> runners[StrKey(id)], err |-> Nil]
    ELSE [r |-> NoRunner, err |-> ErrNotExists]

\* the errors r.Cancel() and r.l.Find() may return
RunnerErrs == {Nil, ErrRunner}

Cancel(t, id) ==
    /\ Call(t, "Cancel", [id |-> id, nodeId |-> ZeroId, status |-> ""], "done")
    /\ LET g == getTaskRunner(id) IN
       IF g.err # Nil
       THEN ret' = [ret EXCEPT ![t] = Ret(g.err, NoRunner)]
       ELSE \E e \in RunnerErrs : ret' = [ret EXCEPT ![t] = Ret(e, g.r)]
    /\ UNCHANGED <<cfgVars, logged, active, poolVars, dataVars, msg, rnr, cnt>>

FindLogs(t, id) ==
    /\ Call(t, "FindLogs", [id |-> id, nodeId |-> ZeroId, status |-> ""], "done")
    /\ LET g == getTaskRunner(id) IN
       IF g.err # Nil
       THEN ret' = [ret EXCEPT ![t] = Ret(g.err, NoRunner)]
       ELSE \E e \in RunnerErrs : ret' = [ret EXCEPT ![t] = Ret(e, g.r)]
    /\ UNCHANGED <<cfgVars, logged, active, poolVars, dataVars, msg, rnr, cnt>>

(***************************************************************************)
(* Collaborators: the queue broker and the task collection                 *)
(***************************************************************************)
\* redis.RedisClient.LPop(q): the head if there is one, the empty text if
\* there is none, or a failure that leaves the queue as it is
LPop(q) ==
    {[msg |-> EmptyStr, err |-> ErrRedis, rest |-> queues[q]]} \cup
    {IF queues[q] = << >>
     THEN [msg |-> EmptyStr, err |-> Nil, rest |-> << >>]
     ELSE [msg |-> Head(queues[q]), err |-> Nil, rest |-> Tail(queues[q])]}

\* redis.RedisClient.RPush(q, m): appends at the tail, or fails
RPush(q, m) ==
    {[err |-> ErrRedis, all |-> queues[q]], [err |-> Nil, all |-> Append(queues[q], m)]}

\* model.TaskService.GetById(id)
GetById(id) ==
    {[err |-> ErrMongo, id |-> ZeroId]} \cup
    {IF store[id] = NoRecord
     THEN [err |-> ErrNoDocuments, id |-> ZeroId]
     ELSE [err |-> Nil, id |-> id]}

(***************************************************************************)
(* Fetch                                                                   *)
(***************************************************************************)
\* Fetch, line 159: the node queue is tried only with a node identity
FetchEntry == IF node # NoNode THEN "fetch_node" ELSE "fetch_pub"

CallFetch(t) ==
    /\ Call(t, "Fetch", NoArg, FetchEntry)
    /\ UNCHANGED <<cfgVars, logged, active, poolVars, dataVars, msg, rnr, cnt, ret>>

\* the node-queue pop followed by the shared-queue pop whatever it yielded
FetchNode_AlwaysFallsBack(t) ==
    /\ pc[t] = "fetch_node"
    /\ \E o \in LPop(QueueNode(node)) :
        /\ queues' = [queues EXCEPT ![QueueNode(node)] = o.rest]
        /\ msg' = [msg EXCEPT ![t] = o.msg]
        /\ pc' = [pc EXCEPT ![t] = "fetch_pub"]
    /\ UNCHANGED <<cfgVars, logged, active, poolVars, store, op, arg, rnr, cnt, ret>>

\* Fetch, lines 159-162: pop of the node queue; err is overwritten at line 166
FetchNode(t) ==
    /\ pc[t] = "fetch_node"
    /\ \E o \in LPop(QueueNode(node)) :
        /\ queues' = [queues EXCEPT ![QueueNode(node)] = o.rest]
        /\ msg' = [msg EXCEPT ![t] = o.msg]
        /\ pc' = [pc EXCEPT ![t] = IF o.msg = EmptyStr THEN "fetch_pub" ELSE "fetch_get"]
    /\ UNCHANGED <<cfgVars, logged, active, poolVars, store, op, arg, rnr, cnt, ret>>

\* Fetch, lines 165-177: pop of the shared queue
FetchPub(t) ==
    /\ pc[t] = "fetch_pub"
    /\ \E o \in LPop(QueuePub) :
        /\ queues' = [queues EXCEPT ![QueuePub] = o.rest]
        /\ IF o.err # Nil
           THEN Return(t, "Fetch", Ret(o.err, ZeroId)) /\ msg' = msg
           ELSE IF o.msg = EmptyStr
           THEN Return(t, "Fetch", Ret(ErrNoTasksAvailable, ZeroId)) /\ msg' = msg
           ELSE /\ msg' = [msg EXCEPT ![t] = o.msg]
                /\ pc' = [pc EXCEPT ![t] = "fetch_get"]
                /\ ret' = ret
    /\ UNCHANGED <<cfgVars, logged, active, poolVars, store, op, arg, rnr, cnt>>

\* Fetch that pushes the message back when the record cannot be loaded
FetchGet_Requeues(t) ==
    /\ pc[t] = "fetch_get"
    /\ LET u == Unmarshal(msg[t]) IN
       IF u.err # Nil
       THEN Return(t, "Fetch", Ret(u.err, ZeroId)) /\ queues' = queues
       ELSE \E g \in GetById(u.id) :
                /\ Return(t, "Fetch", Ret(g.err, g.id))
                /\ queues' = IF g.err = Nil THEN queues
                             ELSE [queues EXCEPT ![QueuePub] = Append(@, msg[t])]
    /\ UNCHANGED <<cfgVars, logged, active, poolVars, store, op, arg, msg, rnr, cnt>>

\* Fetch, lines 179-191: decode the message, load the record
FetchGet(t) ==
    /\ pc[t] = "fetch_get"
    /\ LET u == Unmarshal(msg[t]) IN
       IF u.err # Nil
       THEN Return(t, "Fetch", Ret(u.err, ZeroId))
       ELSE \E g \in GetById(u.id) : Return(t, "Fetch", Ret(g.err, g.id))
    /\ UNCHANGED <<cfgVars, logged, active, poolVars, dataVars, op, arg, msg, rnr, cnt>>

(***************************************************************************)
(* Assign, saveTask                                                        *)
(***************************************************************************)
CallAssign(t, id, n) ==
    /\ Call(t, "Assign", [id |-> id, nodeId |-> n, status |-> StatusPending], "assign_push")
    /\ UNCHANGED <<cfgVars, logged, active, poolVars, dataVars, msg, rnr, cnt, ret>>

\* the master check left out
Forbidden_Never == FALSE

\* Assign, line 118
Forbidden == ~isMaster

\* Assign that goes on to saveTask although the push has failed
AssignPush_IgnoresPushError(t) ==
    /\ pc[t] = "assign_push"
    /\ IF Forbidden
       THEN Return(t, "Assign", Ret(ErrForbidden, 0)) /\ queues' = queues
       ELSE /\ TotalQueued < MaxQueue
            /\ \E o \in RPush(AssignQueue(arg[t]), ToString(arg[t].id)) :
                /\ queues' = [queues EXCEPT ![AssignQueue(arg[t])] = o.all]
                /\ pc' = [pc EXCEPT ![t] = "save_get"]
                /\ ret' = ret
    /\ UNCHANGED <<cfgVars, logged, active, poolVars, store, op, arg, msg, rnr, cnt>>

\* Assign, lines 117-144
AssignPush(t) ==
    /\ pc[t] = "assign_push"
    /\ IF Forbidden
       THEN Return(t, "Assign", Ret(ErrForbidden, 0)) /\ queues' = queues
       ELSE /\ TotalQueued < MaxQueue
            /\ \E o \in RPush(AssignQueue(arg[t]), ToString(arg[t].id)) :
                /\ queues' = [queues EXCEPT ![AssignQueue(arg[t])] = o.all]
                /\ IF o.err # Nil
                   THEN Return(t, "Assign", Ret(o.err, 0))
                   ELSE pc' = [pc EXCEPT ![t] = "save_get"] /\ ret' = ret
    /\ UNCHANGED <<cfgVars, logged, active, poolVars, store, op, arg, msg, rnr, cnt>>

\* saveTask, lines 271-277; Assign passes constants.StatusPending (line 147)
\* the status argument written as it comes
NormalizeStatus_Identity(status) == status

NormalizeStatus(status) == IF status = "" THEN StatusPending ELSE status

\* saveTask, lines 279-291: the probe
SaveTaskGet(t) ==
    /\ pc[t] = "save_get"
    /\ \E g \in GetById(arg[t].id) :
        IF g.err = Nil
        THEN pc' = [pc EXCEPT ![t] = "save_save"] /\ ret' = ret
        ELSE IF g.err = ErrNoDocuments
        THEN pc' = [pc EXCEPT ![t] = "save_add"] /\ ret' = ret
        ELSE Return(t, "Assign", Ret(g.err, 0))
    /\ UNCHANGED <<cfgVars, logged, active, poolVars, dataVars, op, arg, msg, rnr, cnt>>

\* saveTask, lines 284-287: t.Add() inserts, and fails on a present identifier
SaveTaskAdd(t) ==
    /\ pc[t] = "save_add"
    /\ \/ Return(t, "Assign", Ret(ErrMongo, 0)) /\ store' = store
       \/ /\ store[arg[t].id] = NoRecord
          /\ store' = [store EXCEPT ![arg[t].id] = NormalizeStatus(arg[t].status)]
          /\ Return(t, "Assign", Ret(Nil, 0))
    /\ UNCHANGED <<cfgVars, logged, active, poolVars, queues, op, arg, msg, rnr, cnt>>

\* saveTask, lines 293-296: t.Save() updates the record
SaveTaskSave(t) ==
    /\ pc[t] = "save_save"
    /\ \/ Return(t, "Assign", Ret(ErrMongo, 0)) /\ store' = store
       \/ /\ store' = [store EXCEPT ![arg[t].id] = NormalizeStatus(arg[t].status)]
          /\ Return(t, "Assign", Ret(Nil, 0))
    /\ UNCHANGED <<cfgVars, logged, active, poolVars, queues, op, arg, msg, rnr, cnt>>

(***************************************************************************)
(* Init (the poll loop), Close                                             *)
(***************************************************************************)
\* Init, line 72
InitStart ==
    /\ pc[Loop] = "init"
    /\ active' = TRUE
    /\ pc' = [pc EXCEPT ![Loop] = "check1"]
    /\ UNCHANGED <<cfgVars, logged, poolVars, dataVars, op, arg, msg, rnr, cnt, ret>>

\* Init, lines 74-78: top of an iteration, first check point
LoopCheck1 ==
    /\ pc[Loop] = "check1"
    /\ IF ~active
       THEN /\ pc' = [pc EXCEPT ![Loop] = "returned"]
            /\ ret' = [ret EXCEPT ![Loop] = Ret(ErrStopped, 0)]
       ELSE /\ pc' = [pc EXCEPT ![Loop] = "sleep"]
            /\ ret' = [ret EXCEPT ![Loop] = NoRet]
    /\ arg' = [arg EXCEPT ![Loop] = NoArg]
    /\ msg' = [msg EXCEPT ![Loop] = EmptyStr]
    /\ rnr' = [rnr EXCEPT ![Loop] = NoRunner]
    /\ cnt' = [cnt EXCEPT ![Loop] = 0]
    /\ logged' = NoLog
    /\ UNCHANGED <<cfgVars, active, poolVars, dataVars, op>>

\* the end of the sleep without the second check point
LoopCheck2_NoCheck ==
    /\ pc[Loop] = "sleep"
    /\ pc' = [pc EXCEPT ![Loop] = "capacity"]
    /\ UNCHANGED <<cfgVars, logged, active, poolVars, dataVars, op, arg, msg, rnr, cnt, ret>>

\* Init, lines 81-86: the sleep ends, second check point
LoopCheck2 ==
    /\ pc[Loop] = "sleep"
    /\ IF ~active
       THEN /\ pc' = [pc EXCEPT ![Loop] = "returned"]
            /\ ret' = [ret EXCEPT ![Loop] = Ret(ErrStopped, 0)]
       ELSE /\ pc' = [pc EXCEPT ![Loop] = "capacity"]
            /\ ret' = ret
    /\ UNCHANGED <<cfgVars, logged, active, poolVars, dataVars, op, arg, msg, rnr, cnt>>

\* the capacity check with > for >=
LoopCapacity_OffByOne ==
    /\ pc[Loop] = "capacity"
    /\ pc' = [pc EXCEPT ![Loop] =
                IF runnersCount > MaxRunners THEN "check1" ELSE FetchEntry]
    /\ UNCHANGED <<cfgVars, logged, active, poolVars, dataVars, op, arg, msg, rnr, cnt, ret>>

\* Init, lines 88-94: the capacity check; Fetch is called when below the ceiling
LoopCapacity ==
    /\ pc[Loop] = "capacity"
    /\ pc' = [pc EXCEPT ![Loop] =
                IF runnersCount >= MaxRunners THEN "check1" ELSE FetchEntry]
    /\ UNCHANGED <<cfgVars, logged, active, poolVars, dataVars, op, arg, msg, rnr, cnt, ret>>

\* every error of Fetch logged, the idle one too
LogsFetchError_All(err) == err # Nil

\* Init, lines 96-98: the errors of Fetch that are logged
LogsFetchError(err) == err # Nil /\ err # ErrNoTasksAvailable

\* Init, lines 95-106: Fetch has returned ret[Loop]
\* the loop going on to Run with whatever identifier Fetch has returned
LoopAfterFetch_NoZeroCheck ==
    /\ pc[Loop] = "after_fetch"
    /\ IF ret[Loop].err # Nil
       THEN /\ pc' = [pc EXCEPT ![Loop] = "check1"]
            /\ logged' = IF LogsFetchError(ret[Loop].err) THEN LogFetchError ELSE logged
            /\ UNCHANGED <<arg, ret>>
       ELSE /\ pc' = [pc EXCEPT ![Loop] = "run_load"]
            /\ arg' = [arg EXCEPT ![Loop] = [id |-> ret[Loop].val, nodeId |-> ZeroId, status |-> ""]]
            /\ UNCHANGED <<ret, logged>>
    /\ UNCHANGED <<cfgVars, active, poolVars, dataVars, op, msg, rnr, cnt>>

LoopAfterFetch ==
    /\ pc[Loop] = "after_fetch"
    /\ IF ret[Loop].err # Nil
       THEN /\ pc' = [pc EXCEPT ![Loop] = "check1"]
            /\ logged' = IF LogsFetchError(ret[Loop].err) THEN LogFetchError ELSE logged
            /\ UNCHANGED <<arg, ret>>
       ELSE IF ret[Loop].val = ZeroId
       THEN /\ pc' = [pc EXCEPT ![Loop] = "returned"]
            /\ ret' = [ret EXCEPT ![Loop] = Ret(ErrEmptyValue, 0)]
            /\ UNCHANGED <<arg, logged>>
       ELSE /\ pc' = [pc EXCEPT ![Loop] = "run_load"]
            /\ arg' = [arg EXCEPT ![Loop] = [id |-> ret[Loop].val, nodeId |-> ZeroId, status |-> ""]]
            /\ UNCHANGED <<ret, logged>>
    /\ UNCHANGED <<cfgVars, active, poolVars, dataVars, op, msg, rnr, cnt>>

\* the loop returning the error of Run
LoopAfterRun_ReturnsRunError ==
    /\ pc[Loop] = "after_run"
    /\ pc' = [pc EXCEPT ![Loop] = IF ret[Loop].err # Nil THEN "returned" ELSE "check1"]
    /\ logged' = logged
    /\ UNCHANGED <<cfgVars, active, poolVars, dataVars, op, arg, msg, rnr, cnt, ret>>

\* Init, lines 106-109: Run has returned ret[Loop]; its error is logged
LoopAfterRun ==
    /\ pc[Loop] = "after_run"
    /\ pc' = [pc EXCEPT ![Loop] = "check1"]
    /\ logged' = IF ret[Loop].err # Nil THEN LogRunError ELSE logged
    /\ UNCHANGED <<cfgVars, active, poolVars, dataVars, op, arg, msg, rnr, cnt, ret>>

\* Close, line 113
Close(t) ==
    /\ Call(t, "Close", NoArg, "done")
    /\ active' = FALSE
    /\ ret' = [ret EXCEPT ![t] = Ret(Nil, 0)]
    /\ UNCHANGED <<cfgVars, logged, poolVars, dataVars, msg, rnr, cnt>>

(***************************************************************************)
(* Specifications                                                          *)
(***************************************************************************)
\* identifiers handed to Run, Cancel and FindLogs by callers
PoolIds == {1, 2}
\* the caller that runs beside the poll loop, and the identifiers it hands to Run
LoopCallers == {"c1"}
LoopRunIds == {1}

\* the pool under two concurrent callers
NextPool ==
    \/ \E t \in Callers, id \in PoolIds : CallRun(t, id)
    \/ \E t \in Callers : RunLoad(t)
    \/ \E t \in Callers : RunStore(t)
    \/ \E t \in Callers : RunCountRead(t)
    \/ \E t \in Callers : RunCountWrite(t)
    \/ \E h \in 1..4, o \in Outcomes : RunnerFinish(h, o)
    \/ \E t \in Callers, id \in PoolIds : Cancel(t, id)
    \/ \E t \in Callers, id \in PoolIds : FindLogs(t, id)
    \/ \E t \in Callers : Reset(t)

\* the role and the node identity play no part in the pool
InitPool == Init /\ isMaster = FALSE /\ node = NoNode

SpecPool == InitPool /\ [][NextPool]_vars

\* the producer and the consumer of the broker and the task collection
Producers == {"c1"}
Consumers == {"c2"}

NextQueue ==
    \/ \E t \in Producers, id \in TaskIds, n \in NodeIds : CallAssign(t, id, n)
    \/ \E t \in Producers : AssignPush(t)
    \/ \E t \in Producers : SaveTaskGet(t)
    \/ \E t \in Producers : SaveTaskAdd(t)
    \/ \E t \in Producers : SaveTaskSave(t)
    \/ \E t \in Consumers : CallFetch(t)
    \/ \E t \in Consumers : FetchNode(t)
    \/ \E t \in Consumers : FetchPub(t)
    \/ \E t \in Consumers : FetchGet(t)
    \/ \E t \in Callers : Reset(t)

SpecQueue == Init /\ [][NextQueue]_vars

\* saveTask applied to every record state: two callers, each task with no
\* record, a pending one or a finished one, and each status argument
Statuses == {"", StatusPending, StatusFinished}

CallSaveTask(t, id, status) ==
    /\ Call(t, "saveTask", [id |-> id, nodeId |-> ZeroId, status |-> status], "save_get")
    /\ UNCHANGED <<cfgVars, logged, active, poolVars, dataVars, msg, rnr, cnt, ret>>

InitSave ==
    /\ isMaster = TRUE
    /\ node = NoNode
    /\ active = FALSE
    /\ runnersCount = 0
    /\ runners = << >>
    /\ rstate = << >>
    /\ queues = [q \in QueueNames |-> << >>]
    /\ store \in [TaskIds -> {NoRecord, StatusPending, StatusFinished}]
    /\ pc = [t \in Threads |-> IF t = Loop THEN "init" ELSE "idle"]
    /\ op = [t \in Threads |-> IF t = Loop THEN "Init" ELSE "none"]
    /\ arg = [t \in Threads |-> NoArg]
    /\ msg = [t \in Threads |-> EmptyStr]
    /\ rnr = [t \in Threads |-> NoRunner]
    /\ cnt = [t \in Threads |-> 0]
    /\ ret = [t \in Threads |-> NoRet]
    /\ logged = NoLog

NextSave ==
    \/ \E t \in Callers, id \in TaskIds, s \in Statuses : CallSaveTask(t, id, s)
    \/ \E t \in Callers : SaveTaskGet(t)
    \/ \E t \in Callers : SaveTaskAdd(t)
    \/ \E t \in Callers : SaveTaskSave(t)
    \/ \E t \in Callers : Reset(t)

SpecSave == InitSave /\ [][NextSave]_vars

\* The poll loop of a worker beside one caller.  The broker and the task
\* collection are as a master's Assign calls have left them: every queue
\* content of at most MaxQueue messages, each message with or without its
\* record (the status write of Assign may have failed).
Msgs == {ToString(id) : id \in TaskIds}
SeqsUpTo(n) == UNION {[1..k -> Msgs] : k \in 0..n}
Assigned ==
    /\ queues \in [QueueNames -> SeqsUpTo(MaxQueue)]
    /\ queues[QueueNode(2)] = << >>
    /\ TotalQueued <= MaxQueue
    /\ store \in [TaskIds -> {NoRecord, StatusPending}]
    /\ store[0] = StatusPending /\ store[1] = StatusPending

InitLoop ==
    /\ isMaster = FALSE
    /\ node \in ServiceNodes
    /\ active = FALSE
    /\ runnersCount = 0
    /\ runners = << >>
    /\ rstate = << >>
    /\ Assigned
    /\ pc = [t \in Threads |-> IF t = Loop THEN "init" ELSE "idle"]
    /\ op = [t \in Threads |-> IF t = Loop THEN "Init" ELSE "none"]
    /\ arg = [t \in Threads |-> NoArg]
    /\ msg = [t \in Threads |-> EmptyStr]
    /\ rnr = [t \in Threads |-> NoRunner]
    /\ cnt = [t \in Threads |-> 0]
    /\ ret = [t \in Threads |-> NoRet]
    /\ logged = NoLog

NextLoop ==
    \/ InitStart
    \/ LoopCheck1
    \/ LoopCheck2
    \/ LoopCapacity
    \/ FetchNode(Loop)
    \/ FetchPub(Loop)
    \/ FetchGet(Loop)
    \/ LoopAfterFetch
    \/ LoopAfterRun
    \/ \E t \in {Loop} \cup LoopCallers : RunLoad(t)
    \/ \E t \in {Loop} \cup LoopCallers : RunStore(t)
    \/ \E t \in {Loop} \cup LoopCallers : RunCountRead(t)
    \/ \E t \in {Loop} \cup LoopCallers : RunCountWrite(t)
    \/ \E h \in 1..4, o \in Outcomes : RunnerFinish(h, o)
    \/ \E t \in LoopCallers, id \in LoopRunIds : CallRun(t, id)
    \/ \E t \in LoopCallers : Close(t)
    \/ \E t \in LoopCallers : Reset(t)

SpecLoop == InitLoop /\ [][NextLoop]_vars

\* the steps of the poll loop's thread; the scheduler runs the thread as long
\* as it has a step to take
LoopStep ==
    \/ InitStart
    \/ LoopCheck1
    \/ LoopCheck2
    \/ LoopCapacity
    \/ FetchNode(Loop)
    \/ FetchPub(Loop)
    \/ FetchGet(Loop)
    \/ LoopAfterFetch
    \/ LoopAfterRun
    \/ RunLoad(Loop)
    \/ RunStore(Loop)
    \/ RunCountRead(Loop)
    \/ RunCountWrite(Loop)

SpecLoopFair == SpecLoop /\ WF_vars(LoopStep)


\* The poll loop as the only caller of Run: the other thread only closes the
\* service.  More tasks are assigned than the ceiling admits, each with its
\* record, on the public queue and on the queue of node 1.
OnlyIds == 1..(MaxRunners + 1)
OnlyMsgs == {ToString(id) : id \in OnlyIds}

InitLoopOnly ==
    /\ isMaster = FALSE
    /\ node \in ServiceNodes
    /\ active = FALSE
    /\ runnersCount = 0
    /\ runners = << >>
    /\ rstate = << >>
    /\ queues \in [QueueNames -> UNION {[1..k -> OnlyMsgs] : k \in 0..(MaxRunners + 1)}]
    /\ queues[QueueNode(2)] = << >>
    /\ Len(queues[QueueNode(1)]) <= 1
    /\ TotalQueued <= MaxRunners + 1
    /\ store = [i \in {ZeroId} \cup OnlyIds |-> IF i = ZeroId THEN NoRecord ELSE StatusPending]
    /\ pc = [t \in Threads |-> IF t = Loop THEN "init" ELSE "idle"]
    /\ op = [t \in Threads |-> IF t = Loop THEN "Init" ELSE "none"]
    /\ arg = [t \in Threads |-> NoArg]
    /\ msg = [t \in Threads |-> EmptyStr]
    /\ rnr = [t \in Threads |-> NoRunner]
    /\ cnt = [t \in Threads |-> 0]
    /\ ret = [t \in Threads |-> NoRet]
    /\ logged = NoLog

NextLoopOnly ==
    \/ InitStart
    \/ LoopCheck1
    \/ LoopCheck2
    \/ LoopCapacity
    \/ FetchNode(Loop)
    \/ FetchPub(Loop)
    \/ FetchGet(Loop)
    \/ LoopAfterFetch
    \/ LoopAfterRun
    \/ RunLoad(Loop)
    \/ RunStore(Loop)
    \/ RunCountRead(Loop)
    \/ RunCountWrite(Loop)
    \/ \E h \in 1..(MaxRunners + 2), o \in Outcomes : RunnerFinish(h, o)
    \/ \E t \in LoopCallers : Close(t)

SpecLoopOnly == InitLoopOnly /\ [][NextLoopOnly]_vars

(***************************************************************************)
(* Properties of the pool                                                  *)
(***************************************************************************)
\* the runners of task T that have been launched and have not ended
Running(T) == {h \in DOMAIN rstate : rstate[h].tid = T /\ rstate[h].st = "running"}
\* the runners of task T that have been launched (Run has returned nil for them)
Launched(T) == {h \in DOMAIN rstate : rstate[h].tid = T /\ rstate[h].st # "new"}
\* T's pool entry exists and its runner is executing
Live(T) ==
    /\ ObjKey(T) \in DOMAIN runners
    /\ rstate[runners[ObjKey(T)]].st = "running"
\* no runner constructed for T is anything but ended
NoneLive(T) == \A h \in DOMAIN rstate : rstate[h].tid = T => rstate[h].st = "done"

\* C1: of two overlapping Run(T) calls at most one returns success, and at no
\* point are two runners of the same task executing.
C1_AtMostOneRun ==
    /\ \A T \in TaskIds : Cardinality(Running(T)) <= 1
    /\ \A t1, t2 \in Callers :
        ~ (/\ t1 # t2
           /\ pc[t1] = "done" /\ op[t1] = "Run" /\ ret[t1].err = Nil
           /\ pc[t2] = "done" /\ op[t2] = "Run" /\ ret[t2].err = Nil
           /\ arg[t1].id = arg[t2].id)

\* C2: once Run(T) has returned success and T's entry is in the pool, the
\* presence check of any Run(T) returns AlreadyExists, constructs no runner,
\* launches nothing, and leaves the registry and the counter as they are.
C2_DuplicateRejected ==
    [][\A t \in Callers :
        (RunLoad(t) /\ Launched(arg[t].id) # {} /\ ObjKey(arg[t].id) \in DOMAIN runners)
        => /\ pc'[t] = "done"
           /\ ret'[t] = Ret(ErrAlreadyExists, 0)
           /\ UNCHANGED <<runners, runnersCount, rstate>>]_vars

C2_Witness ==
    \E t \in Callers :
        /\ pc[t] = "done" /\ op[t] = "Run" /\ ret[t].err = ErrAlreadyExists
        /\ Launched(arg[t].id) # {}
        /\ runnersCount = 1

\* C3: while T's runner is live, Cancel(T) and FindLogs(T) find T's pool entry
\* and return what that runner returns; they do not fail with NotExists.
C3_CancelReachesLive ==
    [][\A t \in Callers, T \in PoolIds :
        ((Cancel(t, T) \/ FindLogs(t, T)) /\ Live(T))
        => /\ ret'[t].err # ErrNotExists
           /\ ret'[t].val = runners[ObjKey(T)]]_vars

\* C10: when no runner of T is live (T was never admitted, or its runners have
\* ended), Cancel(T) and FindLogs(T) fail with NotExists, call no runner and
\* leave the pool as it is.
C10_NotExists ==
    [][\A t \in Callers, T \in PoolIds :
        ((Cancel(t, T) \/ FindLogs(t, T)) /\ NoneLive(T))
        => /\ ret'[t] = Ret(ErrNotExists, NoRunner)
           /\ UNCHANGED <<runners, runnersCount, rstate>>]_vars

C10_Witness ==
    \E t1, t2 \in Callers :
        /\ pc[t1] = "done" /\ op[t1] = "Cancel" /\ ret[t1].err = ErrNotExists
        /\ pc[t2] = "done" /\ op[t2] = "FindLogs" /\ ret[t2].err = ErrNotExists
        /\ arg[t1].id = 1 /\ arg[t2].id = 2
        /\ Launched(1) # {} /\ NoneLive(1)
        /\ Launched(2) = {}

C6_AssignMasterOnly ==
    ~isMaster =>
        /\ \A q \in QueueNames : queues[q] = << >>
        /\ \A i \in TaskIds : store[i] = NoRecord
        /\ \A t \in Producers :
            /\ pc[t] \notin {"save_get", "save_add", "save_save"}
            /\ (pc[t] = "done" /\ op[t] = "Assign") => ret[t] = Ret(ErrForbidden, 0)

C6_Witness ==
    \E t \in Producers :
        /\ ~isMaster
        /\ pc[t] = "done" /\ op[t] = "Assign" /\ ret[t].err = ErrForbidden
        /\ arg[t] = [id |-> 1, nodeId |-> 2, status |-> StatusPending]

\* the queue the claim names for a task
C7_Queue(a) == IF a.nodeId = ZeroId THEN QueuePub ELSE QueueNode(a.nodeId)

\* C7: the push of an Assign that goes on appends one message carrying the
\* task's identifier at the tail of tasks:node:<nodeId> when the task has a
\* target node, of tasks:public otherwise, and leaves every other queue as it
\* is; the rest of Assign leaves the queues alone; when Assign returns
\* success the task's record has status Pending.
C7_AssignRouting ==
    [][\A t \in Producers :
        /\ (AssignPush(t) /\ pc'[t] = "save_get")
           => /\ isMaster
              /\ Len(queues'[C7_Queue(arg[t])]) = Len(queues[C7_Queue(arg[t])]) + 1
              /\ SubSeq(queues'[C7_Queue(arg[t])], 1, Len(queues[C7_Queue(arg[t])]))
                    = queues[C7_Queue(arg[t])]
              /\ Unmarshal(queues'[C7_Queue(arg[t])][Len(queues'[C7_Queue(arg[t])])])
                    = [err |-> Nil, id |-> arg[t].id]
              /\ \A q \in QueueNames \ {C7_Queue(arg[t])} : queues'[q] = queues[q]
        /\ (SaveTaskGet(t) \/ SaveTaskAdd(t) \/ SaveTaskSave(t)) => queues' = queues
        /\ (pc'[t] = "done" /\ pc[t] # "done" /\ op[t] = "Assign" /\ ret'[t].err = Nil)
           => /\ pc[t] \in {"save_add", "save_save"}
              /\ store'[arg[t].id] = StatusPending]_vars

\* Assign of a task targeted at node 2 has succeeded behind a message already
\* queued for that node; the other queues are empty
C7_Witness ==
    \E t \in Producers :
        /\ pc[t] = "done" /\ op[t] = "Assign" /\ ret[t].err = Nil
        /\ arg[t] = [id |-> 2, nodeId |-> 2, status |-> StatusPending]
        /\ queues[QueueNode(2)] = <<ToString(1), ToString(2)>>
        /\ queues[QueuePub] = << >> /\ queues[QueueNode(1)] = << >>
        /\ store[2] = StatusPending

(***************************************************************************)
(* Properties of the poll loop                                             *)
(***************************************************************************)
\* the runners launched so far, and those of them that have ended
AllLaunched == {h \in DOMAIN rstate : rstate[h].st # "new"}
AllEnded == {h \in DOMAIN rstate : rstate[h].st = "done"}

\* C5: when MaxRunners Run calls have succeeded and none of their runners has
\* ended, the capacity check of a tick skips Fetch: the loop goes to its next
\* iteration, no queue is popped and no Run is called.
C5_AdmissionCeiling ==
    [][(LoopCapacity /\ Cardinality(AllLaunched) >= MaxRunners /\ AllEnded = {})
        => /\ pc'[Loop] = "check1"
           /\ UNCHANGED <<queues, runners, runnersCount, rstate>>]_vars

\* C8: once the loop has started and the active flag is false, the loop
\* returns; it returns Stopped or EmptyValue, and Stopped only with the flag
\* false; at a check point with the flag false its next step is the return;
\* once it has returned it does nothing more; a Close on a closed service
\* changes nothing.
C8_CloseStopsLoop ==
    /\ (pc[Loop] # "init" /\ ~active) ~> (pc[Loop] = "returned")
    /\ [](pc[Loop] = "returned" =>
            /\ ret[Loop].err \in {ErrStopped, ErrEmptyValue}
            /\ ret[Loop].err = ErrStopped => ~active)
    /\ [][(pc[Loop] \in {"check1", "sleep"} /\ ~active /\ pc'[Loop] # pc[Loop])
            => /\ pc'[Loop] = "returned"
               /\ ret'[Loop].err = ErrStopped
               /\ UNCHANGED <<queues, store, runners, runnersCount, rstate>>]_vars
    /\ [][pc[Loop] = "returned" => (pc'[Loop] = "returned" /\ ret'[Loop] = ret[Loop])]_vars
    /\ [][\A t \in LoopCallers :
            (Close(t) /\ pc[Loop] # "init" /\ ~active)
            => UNCHANGED <<active, queues, store, runners, runnersCount, rstate>>]_vars

\* the loop has returned Stopped after a Close, leaving a message unfetched
C8_Witness ==
    /\ pc[Loop] = "returned" /\ ret[Loop].err = ErrStopped
    /\ \E t \in LoopCallers : pc[t] = "done" /\ op[t] = "Close"
    /\ TotalQueued > 0
    /\ AllLaunched # {}

\* C9: Run returns success at the step that launches the runner, with the
\* runner executing; the end of a runner, whatever its outcome, changes no
\* returned value and no thread's position.
C9_RunDoesNotWait ==
    [][/\ \A t \in Threads :
            RunCountWrite(t) => /\ ret'[t] = Ret(Nil, rnr[t])
                                /\ rstate'[rnr[t]].st = "running"
       /\ \A h \in DOMAIN rstate, o \in Outcomes :
            RunnerFinish(h, o) => (ret' = ret /\ pc' = pc)]_vars

\* the loop has admitted task 2 while the runner of task 1, admitted earlier,
\* is still executing
C9_Witness ==
    /\ pc[Loop] = "check1" /\ ret[Loop].err = Nil
    /\ ret[Loop].val \in Running(2)
    /\ \E h \in Running(1) : h < ret[Loop].val
    /\ \A t \in LoopCallers : pc[t] = "idle"
    /\ runnersCount = 2


(***************************************************************************)
(* Properties of the loop's handling of Fetch and Run results              *)
(***************************************************************************)
\* C11: a Fetch whose shared-queue pop is answered on an empty shared queue
\* (its node-queue pop, if any, having yielded nothing) returns
\* NoTasksAvailable, changes no queue and no record and makes no lookup; the
\* loop then logs nothing, calls no Run and goes to its next iteration.
C11_IdleIsNotAnError ==
    [][/\ (FetchPub(Loop) /\ queues[QueuePub] = << >> /\ ret'[Loop].err # ErrRedis)
          => /\ msg[Loop] = EmptyStr
             /\ ret'[Loop] = Ret(ErrNoTasksAvailable, ZeroId)
             /\ pc'[Loop] = "after_fetch"
             /\ UNCHANGED <<queues, store>>
       /\ (LoopAfterFetch /\ ret[Loop].err = ErrNoTasksAvailable)
          => /\ logged' = NoLog
             /\ pc'[Loop] = "check1"
             /\ UNCHANGED <<queues, store, runners, runnersCount, rstate>>]_vars

\* an idle tick of a loop bound to node 1: nothing logged, the loop goes on
C11_Witness ==
    /\ node = 1
    /\ pc[Loop] = "check1" /\ ret[Loop] = Ret(ErrNoTasksAvailable, ZeroId)
    /\ logged = NoLog
    /\ active
    /\ TotalQueued = 0 /\ rstate = << >>


(***************************************************************************)
(* Properties of the pool's bookkeeping                                    *)
(***************************************************************************)
\* no Run call is between its presence check and its return
NoRunInProgress ==
    \A t \in Threads : pc[t] \notin {"run_load", "run_store", "run_read", "run_write"}

\* C12: whenever no Run call is in progress, the occupancy counter equals the
\* number of runners that were launched and have not ended.
C12_CounterTracksLive ==
    NoRunInProgress =>
        runnersCount = Cardinality({h \in DOMAIN rstate : rstate[h].st = "running"})

\* C13: once all runners launched for T have ended, the pool holds no entry
\* for T, so that the presence check of a later Run(T) passes.
C13_EntryRemovedOnTermination ==
    \A T \in TaskIds :
        (NoRunInProgress /\ Launched(T) # {} /\ NoneLive(T))
            => ~RunnersLoad(T)


(***************************************************************************)
(* Properties of Assign against Fetch                                      *)
(***************************************************************************)
\* C14: whenever Fetch looks up the record of an identifier it has popped,
\* the record is in the task collection.
C14_RecordExistsBeforeFetch ==
    [][\A t \in Consumers :
        (FetchGet(t) /\ Unmarshal(msg[t]).err = Nil)
            => store[Unmarshal(msg[t]).id] # NoRecord]_vars


\* C15: a record is written only by an Assign that has pushed its message; an
\* Assign whose push fails returns that error with the task collection (and
\* the queues) as they were; an Assign whose status write fails after the
\* push returns that error and leaves its message on the queue.
C15_EnqueueBeforePersist ==
    [][\A t \in Producers :
        /\ (AssignPush(t) /\ ~Forbidden /\ queues' = queues)
           => /\ pc'[t] = "done"
              /\ ret'[t] = Ret(ErrRedis, 0)
              /\ store' = store
        /\ (pc[t] = "assign_push" /\ pc'[t] \notin {"assign_push", "done"})
           => /\ pc'[t] = "save_get"
              /\ store' = store
              /\ queues'[AssignQueue(arg[t])]
                    = Append(queues[AssignQueue(arg[t])], ToString(arg[t].id))
        /\ store' # store => pc[t] \in {"save_add", "save_save"}
        /\ (pc[t] \in {"save_get", "save_add", "save_save"}
                /\ pc'[t] = "done" /\ ret'[t].err # Nil)
           => /\ ret'[t] = Ret(ErrMongo, 0)
              /\ queues' = queues
              /\ store' = store]_vars

\* the status write of Assign(task 1, node 1) has failed: the call has
\* returned the error, the message is on the node queue, there is no record
C15_Witness ==
    \E t \in Producers :
        /\ pc[t] = "done" /\ op[t] = "Assign" /\ ret[t] = Ret(ErrMongo, 0)
        /\ arg[t] = [id |-> 1, nodeId |-> 1, status |-> StatusPending]
        /\ queues[QueueNode(1)] = <<ToString(1)>>
        /\ store[1] = NoRecord


\* C16: saveTask probes without writing; it inserts only for an identifier
\* with no record and updates only for one with a record; the status written
\* is Pending for the empty argument (and for Pending, the argument of
\* Assign), no other record changes and no identifier gets a second record; a
\* probe error other than "no documents" is returned with nothing written,
\* and so is a failed insert or update.
C16_SaveTaskUpserts ==
    [][\A t \in Callers :
        LET id == arg[t].id
            written == IF arg[t].status \in {"", StatusPending}
                       THEN StatusPending ELSE arg[t].status
        IN  /\ (pc[t] = "save_get" /\ pc'[t] # "save_get")
               => /\ store' = store
                  /\ pc'[t] = "save_add" <=> store[id] = NoRecord /\ pc'[t] # "done"
                  /\ pc'[t] = "save_save" <=> store[id] # NoRecord /\ pc'[t] # "done"
                  /\ pc'[t] = "done" => ret'[t] = Ret(ErrMongo, 0)
            /\ (pc[t] = "save_add" /\ pc'[t] = "done")
               => IF ret'[t].err = Nil
                  THEN /\ store[id] = NoRecord
                       /\ store' = [store EXCEPT ![id] = written]
                  ELSE store' = store
            /\ (pc[t] = "save_save" /\ pc'[t] = "done")
               => IF ret'[t].err = Nil
                  THEN /\ store[id] # NoRecord
                       /\ store' = [store EXCEPT ![id] = written]
                  ELSE store' = store
            /\ DOMAIN store' = DOMAIN store
            /\ (pc'[t] = pc[t] /\ pc'[IF t = "c1" THEN "c2" ELSE "c1"] \notin {"done"})
               => store' = store]_vars

\* saveTask(task 1, "") has inserted the record of task 1 as Pending, and a
\* concurrent saveTask of the same task has probed before the insert
C16_Witness ==
    /\ pc["c1"] = "done" /\ op["c1"] = "saveTask" /\ ret["c1"] = Ret(Nil, 0)
    /\ arg["c1"] = [id |-> 1, nodeId |-> ZeroId, status |-> ""]
    /\ store[1] = StatusPending
    /\ pc["c2"] = "save_add" /\ arg["c2"].id = 1


\* C17: whatever error Fetch or Run has returned to the poll loop (the idle
\* one included), the loop's next step is the top of the next iteration with
\* nothing returned by Init; Init returns only Stopped, with the service
\* closed, or EmptyValue, never an error of Fetch or Run.
FetchErrs == {ErrRedis, ErrJson, ErrMongo, ErrNoDocuments, ErrNoTasksAvailable}
RunErrs == {ErrAlreadyExists, ErrRunner}
C17_LoopSurvivesErrors ==
    /\ [][(pc[Loop] = "after_fetch" /\ ret[Loop].err # Nil /\ pc'[Loop] # pc[Loop])
            => /\ ret[Loop].err \in FetchErrs
               /\ pc'[Loop] = "check1"
               /\ UNCHANGED <<active, queues, store, runners, runnersCount, rstate>>]_vars
    /\ [][(pc[Loop] = "after_run" /\ pc'[Loop] # pc[Loop])
            => /\ ret[Loop].err \in RunErrs \cup {Nil}
               /\ pc'[Loop] = "check1"
               /\ logged' = LogRunError <=> ret[Loop].err \in RunErrs
               /\ UNCHANGED <<active, queues, store, runners, runnersCount, rstate>>]_vars
    /\ [][(pc[Loop] # "returned" /\ pc'[Loop] = "returned")
            => \/ ret'[Loop] = Ret(ErrStopped, 0) /\ ~active
               \/ ret'[Loop] = Ret(ErrEmptyValue, 0)]_vars
    /\ [](pc[Loop] = "returned" => ret[Loop].err \notin FetchErrs \cup RunErrs \cup {Nil})

\* Run has refused the fetched task as a duplicate, the error is logged and
\* the loop is at the top of the next iteration with the service open
C17_Witness ==
    /\ pc[Loop] = "check1" /\ active
    /\ ret[Loop] = Ret(ErrAlreadyExists, 0)
    /\ logged = LogRunError

\* C18: when Fetch has returned the zero identifier without error, the
\* loop's next step returns EmptyValue from Init with the registry, the
\* counter and the runners as they were and Run not entered; Init, once
\* returned, takes no further step.
C18_EmptyValueIsFatal ==
    /\ [][(pc[Loop] = "after_fetch" /\ ret[Loop] = Ret(Nil, ZeroId) /\ pc'[Loop] # pc[Loop])
            => /\ pc'[Loop] = "returned"
               /\ ret'[Loop] = Ret(ErrEmptyValue, 0)
               /\ UNCHANGED <<runners, runnersCount, rstate, arg, rnr, cnt>>]_vars
    /\ [][(pc'[Loop] = "returned" /\ ret'[Loop].err = ErrEmptyValue)
            => pc[Loop] \in {"after_fetch", "returned"}]_vars
    /\ [][(pc[Loop] = "returned" /\ ret[Loop].err = ErrEmptyValue)
            => UNCHANGED <<pc[Loop], ret[Loop], arg[Loop], rnr[Loop], logged>>]_vars
    /\ [](pc[Loop] = "run_load" => arg[Loop].id # ZeroId)

\* Init has returned EmptyValue with the service still open, no runner ever
\* launched and a message still queued
C18_Witness ==
    /\ pc[Loop] = "returned" /\ ret[Loop] = Ret(ErrEmptyValue, 0)
    /\ active /\ rstate = << >> /\ runnersCount = 0
    /\ TotalQueued > 0


\* C19: with the poll loop as the only caller of Run, the occupancy counter
\* never exceeds MaxRunners, and neither does the number of runners launched:
\* the counter is the number of launches (no increment is lost, the value the
\* loop has read is still the counter when it writes it back), and Fetch and
\* Run are entered only with the counter below the ceiling.
C19_LoopAloneKeepsCeiling ==
    /\ runnersCount <= MaxRunners
    /\ runnersCount = Cardinality(AllLaunched)
    /\ Cardinality({h \in DOMAIN rstate : rstate[h].st = "running"}) <= MaxRunners
    /\ pc[Loop] = "run_write" => cnt[Loop] = runnersCount
    /\ pc[Loop] \in {"fetch_node", "fetch_pub", "fetch_get", "after_fetch",
                     "run_load", "run_store", "run_read", "run_write"}
        => runnersCount < MaxRunners

\* the counter is at the ceiling with the runners executing, a task is still
\* queued, and the open loop has passed the capacity check without fetching
C19_Witness ==
    /\ runnersCount = MaxRunners
    /\ Cardinality({h \in DOMAIN rstate : rstate[h].st = "running"}) = MaxRunners
    /\ TotalQueued > 0 /\ active
    /\ pc[Loop] = "check1" /\ logged = NoLog /\ ret[Loop] = NoRet


\* C20: a step of Fetch leaves every queue as it was or removes the head of
\* one queue, and removes it only while the call holds no message, so a call
\* removes at most one message; the step that decodes the message and loads
\* the record changes no queue, whether it returns the task or an error; the
\* task Fetch returns is the one of the message it has removed; and a queue
\* grows only by the push of an Assign.
C20_FetchPopsAtMostOnce ==
    [][/\ \A t \in Consumers :
            /\ (pc[t] \in {"fetch_node", "fetch_pub"} /\ pc'[t] # pc[t])
               => \/ queues' = queues /\ msg'[t] = msg[t]
                  \/ /\ msg[t] = EmptyStr
                     /\ \E q \in QueueNames :
                         /\ queues[q] # << >>
                         /\ msg'[t] = Head(queues[q])
                         /\ queues' = [queues EXCEPT ![q] = Tail(queues[q])]
                     /\ pc'[t] = "fetch_get"
            /\ (pc[t] = "fetch_get" /\ pc'[t] # pc[t])
               => /\ queues' = queues
                  /\ msg[t] # EmptyStr /\ msg'[t] = msg[t]
                  /\ pc'[t] = "done"
                  /\ ret'[t].err \in {Nil, ErrJson, ErrMongo, ErrNoDocuments}
                  /\ ret'[t].err = Nil => msg[t] = ToString(ret'[t].val)
            /\ (pc[t] = "idle" /\ pc'[t] # pc[t]) => msg[t] = EmptyStr /\ msg'[t] = EmptyStr
       /\ (\E q \in QueueNames : Len(queues'[q]) > Len(queues[q]))
            => \E p \in Producers :
                /\ pc[p] = "assign_push" /\ pc'[p] = "save_get"
                /\ pc' = [pc EXCEPT ![p] = "save_get"]]_vars

\* Fetch has removed the message of task 1 from the queue of node 1 and has
\* returned the lookup error; the message is on no queue
C20_Witness ==
    \E t \in Consumers :
        /\ pc[t] = "done" /\ op[t] = "Fetch"
        /\ ret[t] = Ret(ErrNoDocuments, ZeroId)
        /\ msg[t] = ToString(1)
        /\ TotalQueued = 0
        /\ \A p \in Producers : pc[p] = "done" /\ ret[p] = Ret(ErrMongo, 0) /\ arg[p].id = 1

====
